---- MODULE Spec2Model ----
(***************************************************************************)
(* A model of src/visualization.py: the gate visualizer of a character     *)
(* level recurrent network.                                                 *)
(*                                                                           *)
(* Tensors are sequences of integers in fixed point: the real number r is   *)
(* the integer r * Scale.  The widths of the tensors are reduced            *)
(* (HiddenDim, EmbDim) while the sizes the program is built for are kept    *)
(* as the constants CKPT_*.  Characters are their code points.  None is the *)
(* empty tuple.                                                              *)
(***************************************************************************)
EXTENDS Integers, Sequences, FiniteSets, TLC

(* ------------------------------ bounds --------------------------------- *)
\* fixed-point unit: the integer that stands for 1.0
Scale == 4
\* number of hidden cells that are modelled
HiddenDim == 1
\* number of embedding components that are modelled
EmbDim == 1
\* number of different parameter sets (random initialisations, checkpoints)
NumParamSets == 3
\* length, in bytes, of the short data files
MaxTextLen == 4
\* number of lines of the one long data file
LongLines == 12

(* ------------------------- program constants --------------------------- *)
PADDING_TOKEN == 0
CKPT_VOCABULARY_SIZE == 82
CKPT_EMBEDDING_DIM == 256
CKPT_HIDDEN_SIZE == 128

None == << >>
NL == 10
Whitespace == {9, 10, 11, 12, 13, 32}

(* --------------------------- tensor algebra ---------------------------- *)
Min(a, b) == IF a < b THEN a ELSE b
Max(a, b) == IF a > b THEN a ELSE b
Clamp(v, lo, hi) == Max(lo, Min(hi, v))

Zeros(n) == [k \in 1..n |-> 0]

RECURSIVE Dot(_, _)
Dot(a, b) == IF a = << >> THEN 0 ELSE a[1] * b[1] + Dot(Tail(a), Tail(b))

\* F.linear(input, weight) without bias: one row of weight per output
Linear(v, W) == [r \in 1..Len(W) |-> Dot(v, W[r]) \div Scale]

\* torch.sigmoid of one fixed-point number: a piecewise linear sigmoid,
\* 1/2 + v/4 cut to [0, 1]
Sigmoid1(v) == Clamp((Scale \div 2) + (v \div 4), 0, Scale)
Sigmoid(v) == [k \in 1..Len(v) |-> Sigmoid1(v[k])]

\* torch.tanh of one fixed-point number: a piecewise linear tanh, v cut to
\* [-1, 1]
\* a tanh that is not cut to [-1, 1]
Tanh1Unclamped(v) == v
Tanh1(v) == Clamp(v, -Scale, Scale)
Tanh(v) == [k \in 1..Len(v) |-> Tanh1(v[k])]

\* elementwise a * b, a + b and 1 - a
Mul(a, b) == [k \in 1..Len(a) |-> (a[k] * b[k]) \div Scale]
Add(a, b) == [k \in 1..Len(a) |-> a[k] + b[k]]
OneMinus(a) == [k \in 1..Len(a) |-> Scale - a[k]]

Tag(name, v) == [gate |-> name, val |-> v]

(* --------------------------- recurrent cells --------------------------- *)
\* VisualizeGRUCell.forward; prev_state is None or prev_h
GRUForward(x, prev_state, W) ==
  LET prev_h == IF prev_state = None THEN Zeros(HiddenDim) ELSE prev_state
      concat_hx == prev_h \o x
      z == Sigmoid(Linear(concat_hx, W.W_z))
      r == Sigmoid(Linear(concat_hx, W.W_r))
      h_tilde == Tanh(Linear(Mul(r, prev_h) \o x, W.W))
      next_h == Add(Mul(OneMinus(z), prev_h), Mul(z, h_tilde))
  IN  [next_h |-> next_h, next_c |-> None,
       gate_signals |-> <<Tag("z", z), Tag("r", r), Tag("h_tilde", h_tilde)>>]

\* VisualizeLSTMCell.forward; prev_state is None or <<prev_h, prev_c>>
LSTMForward(x, prev_state, W) ==
  LET prev_h == IF prev_state = None THEN Zeros(HiddenDim) ELSE prev_state[1]
      prev_c == IF prev_state = None THEN Zeros(HiddenDim) ELSE prev_state[2]
      concat_hx == prev_h \o x
      f == Sigmoid(Linear(concat_hx, W.W_f))
      i == Sigmoid(Linear(concat_hx, W.W_i))
      o == Sigmoid(Linear(concat_hx, W.W_o))
      c_tilde == Tanh(Linear(concat_hx, W.W_c))
      next_c == Add(Mul(f, prev_c), Mul(i, c_tilde))
      next_h == Mul(o, Tanh(next_c))
  IN  [next_h |-> next_h, next_c |-> next_c,
       gate_signals |-> <<Tag("f", f), Tag("i", i), Tag("o", o),
                          Tag("c_tilde", c_tilde)>>]

\* VisualizePeepholedLSTMCell.forward: every gate and the candidate read
\* the concatenation of prev_c, prev_h and x
PeepholedLSTMForward(x, prev_state, W) ==
  LET prev_h == IF prev_state = None THEN Zeros(HiddenDim) ELSE prev_state[1]
      prev_c == IF prev_state = None THEN Zeros(HiddenDim) ELSE prev_state[2]
      concat_hx == prev_c \o prev_h \o x
      f == Sigmoid(Linear(concat_hx, W.W_f))
      i == Sigmoid(Linear(concat_hx, W.W_i))
      o == Sigmoid(Linear(concat_hx, W.W_o))
      c_tilde == Tanh(Linear(concat_hx, W.W_c))
      next_c == Add(Mul(f, prev_c), Mul(i, c_tilde))
      next_h == Mul(o, Tanh(next_c))
  IN  [next_h |-> next_h, next_c |-> next_c,
       gate_signals |-> <<Tag("f", f), Tag("i", i), Tag("o", o),
                          Tag("c_tilde", c_tilde)>>]

\* a coupled cell whose input gate is not tied to the forget gate
CoupledForwardUntied(x, prev_state, W) ==
  LET prev_h == IF prev_state = None THEN Zeros(HiddenDim) ELSE prev_state[1]
      prev_c == IF prev_state = None THEN Zeros(HiddenDim) ELSE prev_state[2]
      concat_hx == prev_h \o x
      f == Sigmoid(Linear(concat_hx, W.W_f))
      o == Sigmoid(Linear(concat_hx, W.W_o))
      c_tilde == Tanh(Linear(concat_hx, W.W_c))
      next_c == Add(Mul(f, prev_c), Mul(o, c_tilde))
      next_h == Mul(o, Tanh(next_c))
  IN  [next_h |-> next_h, next_c |-> next_c,
       gate_signals |-> <<Tag("f", f), Tag("o", o), Tag("c_tilde", c_tilde)>>]

\* VisualizeCoupledLSTMCell.forward
CoupledForward(x, prev_state, W) ==
  LET prev_h == IF prev_state = None THEN Zeros(HiddenDim) ELSE prev_state[1]
      prev_c == IF prev_state = None THEN Zeros(HiddenDim) ELSE prev_state[2]
      concat_hx == prev_h \o x
      f == Sigmoid(Linear(concat_hx, W.W_f))
      o == Sigmoid(Linear(concat_hx, W.W_o))
      c_tilde == Tanh(Linear(concat_hx, W.W_c))
      next_c == Add(Mul(f, prev_c), Mul(OneMinus(f), c_tilde))
      next_h == Mul(o, Tanh(next_c))
  IN  [next_h |-> next_h, next_c |-> next_c,
       gate_signals |-> <<Tag("f", f), Tag("o", o), Tag("c_tilde", c_tilde)>>]

(* ------------------------------ parameters ----------------------------- *)
\* reset_parameters: sqrt_k = (1 / hidden_size) ** 0.5, in fixed point
SqrtK ==
  CHOOSE k \in 0..Scale : /\ k * k * HiddenDim <= Scale * Scale
                          /\ (k + 1) * (k + 1) * HiddenDim > Scale * Scale

\* one value of param.uniform_(-sqrt_k, sqrt_k), drawn by parameter set k
Uniform(k, salt, r, c) ==
  ((k * 7 + salt * 11 + r * 5 + c * 2) % (2 * SqrtK + 1)) - SqrtK

\* a weight of `rows` x `cols` after reset_parameters
ResetParameters(k, salt, rows, cols) ==
  [r \in 1..rows |-> [c \in 1..cols |-> Uniform(k, salt, r, c)]]

\* the parameters of each cell after __init__, for parameter set k
GRUCell(k) ==
  [W_z |-> ResetParameters(k, 1, HiddenDim, HiddenDim + EmbDim),
   W_r |-> ResetParameters(k, 2, HiddenDim, HiddenDim + EmbDim),
   W   |-> ResetParameters(k, 3, HiddenDim, HiddenDim + EmbDim)]

LSTMCell(k) ==
  [W_f |-> ResetParameters(k, 1, HiddenDim, HiddenDim + EmbDim),
   W_i |-> ResetParameters(k, 2, HiddenDim, HiddenDim + EmbDim),
   W_c |-> ResetParameters(k, 3, HiddenDim, HiddenDim + EmbDim),
   W_o |-> ResetParameters(k, 4, HiddenDim, HiddenDim + EmbDim)]

PeepholedLSTMCell(k) ==
  [W_f |-> ResetParameters(k, 1, HiddenDim, 2 * HiddenDim + EmbDim),
   W_i |-> ResetParameters(k, 2, HiddenDim, 2 * HiddenDim + EmbDim),
   W_c |-> ResetParameters(k, 3, HiddenDim, 2 * HiddenDim + EmbDim),
   W_o |-> ResetParameters(k, 4, HiddenDim, 2 * HiddenDim + EmbDim)]

CoupledLSTMCell(k) ==
  [W_f |-> ResetParameters(k, 1, HiddenDim, HiddenDim + EmbDim),
   W_c |-> ResetParameters(k, 2, HiddenDim, HiddenDim + EmbDim),
   W_o |-> ResetParameters(k, 3, HiddenDim, HiddenDim + EmbDim)]

\* nn.Embedding(num_embeddings, embedding_dim, padding_idx): one row per
\* index 0..num_embeddings-1, the padding row all zeros
Embedding(k, num_embeddings, padding_idx) ==
  [idx \in 0..(num_embeddings - 1) |->
     [j \in 1..EmbDim |->
        IF idx = padding_idx THEN 0
        ELSE ((k * 3 + idx * 5 + j) % (4 * Scale + 1)) - 2 * Scale]]

\* nn.Linear(hidden_size, vocabulary_size): a weight row and a bias per class
Classifier(k, out_features) ==
  [weight |-> [idx \in 0..(out_features - 1) |->
                 [j \in 1..HiddenDim |-> Uniform(k, 5, idx, j)]],
   bias   |-> [idx \in 0..(out_features - 1) |-> Uniform(k, 6, idx, 0)]]

\* VisualizeInternalGates.__init__: the sizes the model is built for, the
\* cell it runs and its freshly initialised parameters
VisualizeInternalGates(k) ==
  [vocabulary_size |-> CKPT_VOCABULARY_SIZE,
   embedding_dim   |-> CKPT_EMBEDDING_DIM,
   hidden_size     |-> CKPT_HIDDEN_SIZE,
   rnn_model       |-> "VisualizeCoupledLSTMCell",
   params |-> [embedding  |-> Embedding(k, CKPT_VOCABULARY_SIZE, PADDING_TOKEN),
               rnn_model  |-> CoupledLSTMCell(k),
               classifier |-> Classifier(k, CKPT_VOCABULARY_SIZE)]]

\* the parameter sets a checkpoint file may hold: the first and the last
CheckpointParams ==
  {VisualizeInternalGates(k).params : k \in {1, NumParamSets}}

(* ------------------------------- dataset ------------------------------- *)
Range(s) == {s[i] : i \in 1..Len(s)}

\* bytes.strip(): leading and trailing whitespace removed
RECURSIVE LStrip(_)
LStrip(s) == IF s # << >> /\ s[1] \in Whitespace THEN LStrip(Tail(s)) ELSE s
RECURSIVE RStrip(_)
RStrip(s) ==
  IF s # << >> /\ s[Len(s)] \in Whitespace
  THEN RStrip(SubSeq(s, 1, Len(s) - 1)) ELSE s
Strip(s) == RStrip(LStrip(s))

\* str.split(sep): the pieces between the separators, empty ones included
RECURSIVE Split(_, _)
Split(s, sep) ==
  IF sep \notin Range(s) THEN <<s>>
  ELSE LET i == CHOOSE j \in 1..Len(s) :
                  s[j] = sep /\ \A m \in 1..(j - 1) : s[m] # sep
       IN  <<SubSeq(s, 1, i - 1)>> \o Split(SubSeq(s, i + 1, Len(s)), sep)

\* positions counted from one instead of zero
Char2IndexOneBased(vocabulary) ==
  [x \in Range(vocabulary) |->
     CHOOSE i \in 1..Len(vocabulary) :
       vocabulary[i] = x /\ \A m \in (i + 1)..Len(vocabulary) : vocabulary[m] # x]

\* {x: i for (i, x) in enumerate(vocabulary)}: a later entry replaces an
\* earlier one with the same key, so a key keeps its last position
Char2Index(vocabulary) ==
  [x \in Range(vocabulary) |->
     LET at == {i \in 1..Len(vocabulary) : vocabulary[i] = x}
     IN  (CHOOSE i \in at : \A m \in at : m <= i) - 1]

\* every index paired with the character after its own
Index2CharShifted(vocabulary) ==
  [i \in 0..(Len(vocabulary) - 1) |-> vocabulary[((i + 1) % Len(vocabulary)) + 1]]

\* {i: x for (i, x) in enumerate(vocabulary)}
Index2Char(vocabulary) ==
  [i \in 0..(Len(vocabulary) - 1) |-> vocabulary[i + 1]]

\* VisualizeWarAndPeaceDataset.__init__
VisualizeWarAndPeaceDataset(vocabulary, file) ==
  [vocabulary |-> vocabulary,
   data       |-> Split(Strip(file), NL),
   char2index |-> Char2Index(vocabulary),
   index2char |-> Index2Char(vocabulary)]

\* a batch that is int64 also when it is empty
GetItemInt64(ds, index) ==
  LET line == ds.data[index + 1]
  IN  IF \E t \in 1..Len(line) : line[t] \notin DOMAIN ds.char2index
      THEN [error |-> "KeyError", dtype |-> "none", idx |-> << >>]
      ELSE [error |-> "", dtype |-> "int64",
            idx   |-> [t \in 1..Len(line) |-> ds.char2index[line[t]]]]

\* VisualizeWarAndPeaceDataset.__getitem__ and the default collate into a
\* batch of one: a KeyError for a character outside char2index; np.array of
\* an empty list is float64, of a list of ints int64
GetItem(ds, index) ==
  LET line == ds.data[index + 1]
  IN  IF \E t \in 1..Len(line) : line[t] \notin DOMAIN ds.char2index
      THEN [error |-> "KeyError", dtype |-> "none", idx |-> << >>]
      ELSE [error |-> "",
            dtype |-> IF line = << >> THEN "float64" ELSE "int64",
            idx   |-> [t \in 1..Len(line) |-> ds.char2index[line[t]]]]

\* VisualizeWarAndPeaceDataset.convert_to_chars of a batch of one
ConvertToChars(ds, sequence) ==
  [t \in 1..Len(sequence) |-> ds.index2char[sequence[t]]]

(* ------------------------------ file names ----------------------------- *)
DigitChar(d) == <<"0", "1", "2", "3", "4", "5", "6", "7", "8", "9">>[d + 1]

RECURSIVE Digits(_)
Digits(n) ==
  IF n < 10 THEN <<DigitChar(n)>>
  ELSE Digits(n \div 10) \o <<DigitChar(n % 10)>>

\* '%d' % n: no padding
FormatD(n) == Digits(n)

\* '%02d' % n: the decimal digits, zero padded to two
Format02d(n) == IF n < 10 THEN <<"0">> \o Digits(n) ELSE Digits(n)

\* str.lower() of the gate names in use
Lower(name) ==
  CASE name = "UPDATE_SIGNALS" -> "update_signals"
    [] name = "RESET_SIGNALS" -> "reset_signals"
    [] name = "CELL_STATE_CANDIDATES" -> "cell_state_candidates"
    [] OTHER -> name

\* os.path.join(saving_dir, 'S%02d_' % sequence_id + gate_name.lower() + '.png')
FileName(saving_dir, sequence_id, gate_name) ==
  <<saving_dir, "S">> \o Format02d(sequence_id)
    \o <<"_", Lower(gate_name), ".png">>

GateNames == <<"update_signals", "reset_signals", "cell_state_candidates">>

(* ----------------------------- visualisation --------------------------- *)
\* torch.cat(states, dim=0)...T: one row per hidden cell, one column per step
Transpose(rows, width) ==
  [h \in 1..width |-> [t \in 1..Len(rows) |-> rows[t][h]]]

\* list(zip(*internals)): per gate, its signal at every step
Zip(internals, n) ==
  [g \in 1..n |-> [t \in 1..Len(internals) |-> internals[t][g]]]

\* visualize_internals: the file written and the heatmap drawn into it
VisualizeInternals(sequence_id, sequence, gate_name, states, saving_dir) ==
  LET values == Transpose([t \in 1..Len(states) |-> states[t].val], HiddenDim)
      known == gate_name \in {"update_signals", "reset_signals",
                              "cell_state_candidates"}
      vmin == IF gate_name \in {"update_signals", "reset_signals"} THEN 0 ELSE -1
  IN  [error |-> IF known THEN "" ELSE "ValueError",
       path  |-> FileName(saving_dir, sequence_id, gate_name),
       image |-> [values |-> values,
                  time_stamps |-> Len(states),
                  xticklabels |-> sequence,
                  vmin |-> vmin,
                  vmax |-> 1,
                  gates |-> {states[t].gate : t \in 1..Len(states)}]]

(* ------------------------------- the run ------------------------------- *)
VARIABLES
  pc,            \* where war_and_peace_visualizer stands
  rawText,       \* data/war_and_peace_visualize.txt
  state_dict,    \* data/war_and_peace_model_checkpoint.pt, as torch.load
                 \* returns it
  model,         \* the VisualizeInternalGates instance
  dataset,       \* the VisualizeWarAndPeaceDataset instance
  step,          \* enumerate(data_loader): the index of the current batch
  sequences,     \* the current batch of one sequence
  fwd,           \* the locals of VisualizeInternalGates.forward
  outputs,       \* the dictionary forward returned
  gatesDone,     \* the gates of the current sequence already drawn
  files,         \* the images written, by path
  savefigCalls,  \* the number of plt.savefig calls
  err,           \* the exception that ended the run
  order,         \* the forward passes that returned, in time order: the
                 \* index of the sequence and the calls of the cell
  trace,         \* the calls of the cell during the current forward pass
  probe          \* one call of one cell on given arguments

vars == <<pc, rawText, state_dict, model, dataset, step, sequences, fwd,
          outputs, gatesDone, files, savefigCalls, err, order, trace, probe>>

runVars == <<pc, rawText, state_dict, model, dataset, step, sequences,
             fwd, outputs, gatesDone, files, savefigCalls, err, order, trace>>

\* a vocabulary of n distinct characters, from the space on
Vocabulary(n) == [i \in 1..n |-> 31 + i]

\* the vocabularies a checkpoint file may hold: of the size the model is
\* built for, one entry longer, and a short one with a repeated character
Vocabularies ==
  {Vocabulary(CKPT_VOCABULARY_SIZE), Vocabulary(CKPT_VOCABULARY_SIZE + 1),
   <<97, 114, 97>>}

\* the data files: every short text of newlines, 'a' and 'r', and one long
\* text of LongLines lines
Alphabet == {NL, 97, 114}
ShortTexts == UNION {[1..n -> Alphabet] : n \in 0..MaxTextLen}
LongText == [i \in 1..(2 * LongLines - 1) |-> IF i % 2 = 1 THEN 97 ELSE NL]
Texts == ShortTexts \cup {LongText}

NoError == [type |-> "", line |-> 0]
NoFwd == [data |-> << >>, state |-> None, internals |-> << >>, t |-> 0]
NoProbe == [cell |-> "", x |-> << >>, prev_state |-> None, k |-> 0, out |-> None]
NoFiles == [p \in {} |-> 0]

RunIdle ==
  /\ model = None /\ dataset = None
  /\ step = 0 /\ sequences = None /\ fwd = NoFwd /\ outputs = None
  /\ gatesDone = 0 /\ files = NoFiles /\ savefigCalls = 0
  /\ err = NoError /\ order = << >> /\ trace = << >>

\* the start of war_and_peace_visualizer: the two data files are given,
\* torch.load (line 305) is about to return state_dict, nothing is built
Init ==
  /\ pc = "start"
  /\ state_dict \in [vocabulary : Vocabularies, params : CheckpointParams]
  /\ rawText \in Texts
  /\ RunIdle
  /\ probe = NoProbe

\* an index that does not advance
NextIndexStay(i) == i

\* enumerate: the index of the batch after batch i
NextIndex(i) == i + 1

Raise(type, line) ==
  /\ pc' = "error"
  /\ err' = [type |-> type, line |-> line]

\* lines 305-314: with the checkpoint loaded, build the model, the dataset
\* and the loader.  The loaded parameters are not put into the model.
Build ==
  /\ pc = "start"
  /\ \E k \in 1..NumParamSets : model' = VisualizeInternalGates(k)
  /\ dataset' = VisualizeWarAndPeaceDataset(state_dict.vocabulary, rawText)
  /\ step' = 0
  /\ pc' = "loop"
  /\ UNCHANGED <<state_dict, rawText, sequences, fwd, outputs, gatesDone, files,
                 savefigCalls, err, order, trace, probe>>

\* line 316: the loader yields the next batch (batch size 1, in order), or
\* ends the loop
Fetch ==
  /\ pc = "loop"
  /\ IF step = Len(dataset.data)
     THEN pc' = "done" /\ UNCHANGED <<sequences, err>>
     ELSE LET item == GetItem(dataset, step)
          IN  IF item.error # ""
              THEN Raise(item.error, 254) /\ UNCHANGED sequences
              ELSE /\ sequences' = [dtype |-> item.dtype, idx |-> item.idx]
                   /\ pc' = "forward"
                   /\ UNCHANGED err
  /\ UNCHANGED <<rawText, state_dict, model, dataset, step, fwd, outputs,
                 gatesDone, files, savefigCalls, order, trace, probe>>

\* lines 37-41: the embedding lookup, which takes integer indices that are
\* rows of the table, and the start of the step loop
Embed ==
  /\ pc = "forward"
  /\ IF sequences.dtype # "int64"
     THEN Raise("RuntimeError", 37) /\ UNCHANGED <<fwd, trace>>
     ELSE IF \E t \in 1..Len(sequences.idx) :
               sequences.idx[t] \notin DOMAIN model.params.embedding
     THEN Raise("IndexError", 37) /\ UNCHANGED <<fwd, trace>>
     ELSE /\ fwd' = [data |-> [t \in 1..Len(sequences.idx) |->
                                 model.params.embedding[sequences.idx[t]]],
                     state |-> None, internals |-> << >>, t |-> 0]
          /\ trace' = << >>
          /\ pc' = "steps"
          /\ UNCHANGED err
  /\ UNCHANGED <<rawText, state_dict, model, dataset, step, sequences,
                 outputs, gatesDone, files, savefigCalls, order, probe>>

\* lines 42-45: one step of the cell
Step ==
  /\ pc = "steps"
  /\ fwd.t < Len(fwd.data)
  /\ LET x == fwd.data[fwd.t + 1]
         r == CoupledForward(x, fwd.state, model.params.rnn_model)
     IN  /\ fwd' = [fwd EXCEPT !.internals = Append(@, r.gate_signals),
                               !.state = <<r.next_h, r.next_c>>,
                               !.t = @ + 1]
         /\ trace' = Append(trace, [x |-> x, prev_state |-> fwd.state,
                                    next_h |-> r.next_h, next_c |-> r.next_c,
                                    gate_signals |-> r.gate_signals])
  /\ UNCHANGED <<pc, rawText, state_dict, model, dataset, step,
                 sequences, outputs, gatesDone, files, savefigCalls, err,
                 order, probe>>

\* lines 47-55: the classifier reads state[0]; the signals are regrouped by
\* gate and named
Forward ==
  /\ pc = "steps"
  /\ fwd.t = Len(fwd.data)
  /\ IF fwd.state = None
     THEN Raise("TypeError", 47) /\ UNCHANGED <<outputs, gatesDone, order>>
     ELSE LET internals == Zip(fwd.internals, 3)
          IN  /\ outputs' = [update_signals |-> internals[1],
                             reset_signals |-> internals[2],
                             cell_state_candidates |-> internals[3]]
              /\ gatesDone' = 0
              /\ order' = Append(order, [index |-> step, calls |-> trace])
              /\ pc' = "visualize"
              /\ UNCHANGED err
  /\ UNCHANGED <<rawText, state_dict, model, dataset, step, sequences,
                 fwd, files, savefigCalls, trace, probe>>

\* lines 319-320: one gate of the current sequence is drawn and saved; after
\* the third the loop goes on to the next batch
Visualize ==
  /\ pc = "visualize"
  /\ LET gate == GateNames[gatesDone + 1]
         v == VisualizeInternals(step, ConvertToChars(dataset, sequences.idx),
                                 gate, outputs[gate], "visualize/")
     IN  IF v.error # ""
         THEN Raise(v.error, 276)
              /\ UNCHANGED <<files, savefigCalls, gatesDone, step>>
         ELSE /\ files' = [p \in DOMAIN files \cup {v.path} |->
                             IF p = v.path THEN v.image ELSE files[p]]
              /\ savefigCalls' = savefigCalls + 1
              /\ IF gatesDone + 1 = Len(GateNames)
                 THEN /\ pc' = "loop" /\ step' = NextIndex(step)
                      /\ gatesDone' = 0
                 ELSE /\ gatesDone' = gatesDone + 1 /\ UNCHANGED <<pc, step>>
              /\ UNCHANGED err
  /\ UNCHANGED <<rawText, state_dict, model, dataset, sequences, fwd,
                 outputs, order, trace, probe>>

Next == Build \/ Fetch \/ Embed \/ Step \/ Forward \/ Visualize

Spec == Init /\ [][Next]_vars

(* ------------------------ the cells, one call each --------------------- *)
ProbeVals == {-Scale, -1, 2, Scale}

InitCells ==
  /\ pc = "probe"
  /\ state_dict = None /\ rawText = << >>
  /\ RunIdle
  /\ probe \in [cell : {""},
                x : [1..EmbDim -> ProbeVals],
                prev_state : {None} \cup ([1..HiddenDim -> ProbeVals]
                                            \X [1..HiddenDim -> ProbeVals]),
                k : 1..NumParamSets,
                out : {None}]

Call(cell, out) ==
  /\ pc = "probe"
  /\ probe.cell = ""
  /\ probe' = [probe EXCEPT !.cell = cell, !.out = out]
  /\ UNCHANGED runVars

CallGRU ==
  Call("GRU", GRUForward(probe.x,
                         IF probe.prev_state = None THEN None
                         ELSE probe.prev_state[1],
                         GRUCell(probe.k)))
CallLSTM ==
  Call("LSTM", LSTMForward(probe.x, probe.prev_state, LSTMCell(probe.k)))
CallPeepholedLSTM ==
  Call("PeepholedLSTM",
       PeepholedLSTMForward(probe.x, probe.prev_state, PeepholedLSTMCell(probe.k)))
CallCoupledLSTM ==
  Call("CoupledLSTM",
       CoupledForward(probe.x, probe.prev_state, CoupledLSTMCell(probe.k)))

NextCells == CallGRU \/ CallLSTM \/ CallPeepholedLSTM \/ CallCoupledLSTM

SpecCells == InitCells /\ [][NextCells]_vars

(* ------------------------------- claims -------------------------------- *)
Data == dataset.data
Built == pc \notin {"start", "probe"}
PathOf(i, g) == FileName("visualize/", i, GateNames[g])

\* C1: at every forward pass the parameters of the model (embedding, cell,
\* classifier) are the ones stored in the loaded checkpoint.
C1_CheckpointReplayed ==
  pc \in {"forward", "steps"} => model.params = state_dict.params

\* what a cell calls each of its signals, by the name it computes it under
GateKind(tag) ==
  CASE tag = "z" -> "update"
    [] tag = "r" -> "reset"
    [] tag = "f" -> "forget"
    [] tag = "i" -> "input"
    [] tag = "o" -> "output"
    [] tag \in {"h_tilde", "c_tilde"} -> "candidate"

\* what the name of a heatmap says it shows
ShownKind(gate_name) ==
  CASE gate_name = "update_signals" -> "update"
    [] gate_name = "reset_signals" -> "reset"
    [] gate_name = "cell_state_candidates" -> "candidate"

\* C3: every heatmap shows, at every timestep, the signal of the running
\* cell that its name says: update_signals the update gate, reset_signals
\* the reset gate, cell_state_candidates the cell candidate.
C3_NamesMatchGates ==
  \A p \in DOMAIN files :
    \A tag \in files[p].gates : GateKind(tag) = ShownKind(p[Len(p) - 1])

\* the arguments and results of the probed call
ProbeH == IF probe.prev_state = None THEN Zeros(HiddenDim) ELSE probe.prev_state[1]
ProbeC == IF probe.prev_state = None THEN Zeros(HiddenDim) ELSE probe.prev_state[2]
ProbeGate(tag) ==
  (CHOOSE j \in 1..Len(probe.out.gate_signals) :
     probe.out.gate_signals[j].gate = tag)
ProbeVal(tag) == probe.out.gate_signals[ProbeGate(tag)].val
AnyC == [1..HiddenDim -> ProbeVals]

\* C5: the coupled cell computes next_c = f * prev_c + (1 - f) * c_tilde and
\* next_h = o * tanh(next_c), with f, o and c_tilde computed from the
\* concatenation of prev_h and x only, and prev_h = prev_c = 0 when
\* prev_state is None.
C5_CoupledStep ==
  probe.cell = "CoupledLSTM" =>
    LET W == CoupledLSTMCell(probe.k)
        hx == ProbeH \o probe.x
        f == ProbeVal("f")
        o == ProbeVal("o")
        c_tilde == ProbeVal("c_tilde")
    IN  /\ f = Sigmoid(Linear(hx, W.W_f))
        /\ o = Sigmoid(Linear(hx, W.W_o))
        /\ c_tilde = Tanh(Linear(hx, W.W_c))
        /\ \A c2 \in AnyC :
             CoupledForward(probe.x, <<ProbeH, c2>>, W).gate_signals
               = probe.out.gate_signals
        /\ probe.out.next_c = Add(Mul(f, ProbeC), Mul(OneMinus(f), c_tilde))
        /\ probe.out.next_h = Mul(o, Tanh(probe.out.next_c))
        /\ probe.prev_state = None =>
             probe.out = CoupledForward(probe.x,
                                        <<Zeros(HiddenDim), Zeros(HiddenDim)>>, W)

\* C5 witness: a coupled step from a given state in which the forget gate is
\* partly open, so that both prev_c and c_tilde weigh in next_c
C5_Witness ==
  /\ probe.cell = "CoupledLSTM"
  /\ probe.prev_state # None
  /\ \E h \in 1..HiddenDim :
       /\ ProbeVal("f")[h] \notin {0, Scale}
       /\ ProbeC[h] # 0
       /\ ProbeVal("c_tilde")[h] \notin {0, ProbeC[h]}
       /\ probe.out.next_h[h] # 0

\* C6: the peephole cell is the published one: the forget and input gates
\* see c_{t-1}, the output gate sees the new c_t, the candidate sees no cell
\* state; next_c = f * prev_c + i * c_tilde, next_h = o * tanh(next_c).
C6_PeepholePublished ==
  probe.cell = "PeepholedLSTM" =>
    LET W == PeepholedLSTMCell(probe.k)
        f == ProbeVal("f")
        i == ProbeVal("i")
        o == ProbeVal("o")
        c_tilde == ProbeVal("c_tilde")
    IN  /\ f = Sigmoid(Linear(ProbeC \o ProbeH \o probe.x, W.W_f))
        /\ i = Sigmoid(Linear(ProbeC \o ProbeH \o probe.x, W.W_i))
        /\ o = Sigmoid(Linear(probe.out.next_c \o ProbeH \o probe.x, W.W_o))
        /\ \A c2 \in AnyC :
             PeepholedLSTMForward(probe.x, <<ProbeH, c2>>, W)
               .gate_signals[ProbeGate("c_tilde")].val = c_tilde
        /\ probe.out.next_c = Add(Mul(f, ProbeC), Mul(i, c_tilde))
        /\ probe.out.next_h = Mul(o, Tanh(probe.out.next_c))

(* the shape of a file name, read back from the path *)
DigitChars == {DigitChar(d) : d \in 0..9}
DigitValue(ch) == CHOOSE d \in 0..9 : DigitChar(d) = ch
RECURSIVE DecimalValue(_)
DecimalValue(ds) ==
  IF ds = << >> THEN 0
  ELSE DecimalValue(SubSeq(ds, 1, Len(ds) - 1)) * 10 + DigitValue(ds[Len(ds)])

\* p is 'visualize/S<i as at least two digits>_<gate_name>.png'
WellNamed(p, i, gate_name) ==
  /\ Len(p) >= 7
  /\ p[1] = "visualize/" /\ p[2] = "S"
  /\ p[Len(p) - 2] = "_" /\ p[Len(p) - 1] = gate_name /\ p[Len(p)] = ".png"
  /\ LET ds == SubSeq(p, 3, Len(p) - 3)
     IN  /\ Len(ds) >= 2
         /\ \A j \in 1..Len(ds) : ds[j] \in DigitChars
         /\ DecimalValue(ds) = i
         /\ Len(ds) > 2 => ds[1] # "0"

\* C2: when the run finishes on N sequences, 3 * N images have been written,
\* exactly one per sequence index and gate, named
\* 'S<index as at least two digits>_<gate>.png' in the saving directory; no
\* image overwrites another.
C2_ThreeImagesPerSequence ==
  pc = "done" =>
    LET N == Len(Data)
    IN  /\ savefigCalls = 3 * N
        /\ Cardinality(DOMAIN files) = 3 * N
        /\ \A i \in 0..(N - 1) : \A g \in 1..3 :
             Cardinality({p \in DOMAIN files : WellNamed(p, i, GateNames[g])}) = 1

\* C2 witness: a finished run over more than ten sequences
C2_Witness == pc = "done" /\ Len(Data) > 10 /\ savefigCalls > 30

\* a line the run cannot get past: it is empty, or has a character outside
\* the vocabulary, or a character whose index is no row of the embedding
Fatal(line) ==
  \/ line = << >>
  \/ \E t \in 1..Len(line) : line[t] \notin DOMAIN dataset.char2index
  \/ \E t \in 1..Len(line) :
       dataset.char2index[line[t]] \notin DOMAIN model.params.embedding

\* the forward passes so far are those of lines 0, 1, 2, ... in this order,
\* and the three images of a line exist before the next is taken up
InOrder ==
  /\ \A j \in 1..Len(order) : order[j].index = j - 1
  /\ Len(order) = IF pc = "visualize" THEN step + 1 ELSE step
  /\ \A i \in 0..(step - 1) : \A g \in 1..3 : PathOf(i, g) \in DOMAIN files
  /\ \A i \in step..(Len(Data) - 1) : \A g \in 1..3 :
       PathOf(i, g) \in DOMAIN files => (i = step /\ pc = "visualize" /\ g <= gatesDone)

\* C4 as stated: a single pass in which every line is run through the model
\* exactly once, in order, its images written before the next line is
\* started, ending after the last sequence.
C4_EveryLineOnce ==
  Built =>
    /\ InOrder
    /\ pc \in {"done", "error"} => (pc = "done" /\ Len(order) = Len(Data))

\* the steps the run has left at most: the lines not yet finished, each
\* worth more than the steps of one line, plus the steps left in the
\* current line
RankOf(p, s, f, g) ==
  LET L == Len(rawText) + 6
      N == Len(Split(Strip(rawText), NL))
  IN  CASE p = "start" -> (N + 1) * (L + 1)
        [] p = "loop" -> (N - s) * (L + 1) + L
        [] p = "forward" -> (N - s) * (L + 1) + L - 1
        [] p = "steps" -> (N - s) * (L + 1) + 4 + (Len(f.data) - f.t)
        [] p = "visualize" -> (N - s) * (L + 1) + 3 - g
        [] OTHER -> 0
Rank == RankOf(pc, step, fwd, gatesDone)

\* the guard of some action of the run holds
CanStep ==
  \/ pc \in {"start", "loop", "forward", "visualize"}
  \/ pc = "steps" /\ (fwd.t < Len(fwd.data) \/ fwd.t = Len(fwd.data))

\* C4, amended: a single pass in dataset order; the lines before the first
\* fatal line are run through the model exactly once each, each with its
\* three images written before the next is started; the run ends after the
\* last sequence when no line is fatal and aborts at the first fatal line
\* otherwise; it always ends: until it has ended a next step can be taken, and
\* every step lowers the number of steps left.
C4_SinglePass ==
  /\ [](Built =>
          /\ InOrder
          /\ step <= Len(Data)
          /\ \A i \in 0..(step - 1) : ~Fatal(Data[i + 1])
          /\ pc = "done" => step = Len(Data)
          /\ pc = "error" => (step < Len(Data) /\ Fatal(Data[step + 1])))
  /\ [](pc \in {"done", "error"} \/ CanStep)
  /\ [](Rank >= 0)
  /\ [][RankOf(pc', step', fwd', gatesDone') < Rank]_vars

\* C4 witness: a finished run over several lines
C4_Witness == pc = "done" /\ Len(order) >= 3

\* C7 as stated: the model has the checkpoint's sizes and every token index
\* of the current sequence lies in 0..81.
C7_IndexInTable ==
  Built =>
    /\ model.vocabulary_size = 82 /\ model.embedding_dim = 256
    /\ model.hidden_size = 128
    /\ DOMAIN model.params.embedding = 0..81
    /\ DOMAIN model.params.classifier.weight = 0..81
    /\ pc \in {"forward", "steps", "visualize"} =>
         \A t \in 1..Len(sequences.idx) : sequences.idx[t] \in 0..81

\* C7, amended: the model has the checkpoint's sizes, and every token index
\* is a position of its character in the vocabulary of the checkpoint, so
\* it lies in 0..len(vocabulary)-1; that is within 0..81 when the
\* vocabulary has at most 82 entries.
C7_IndexInVocabulary ==
  Built =>
    /\ model.vocabulary_size = 82 /\ model.embedding_dim = 256
    /\ model.hidden_size = 128
    /\ DOMAIN model.params.embedding = 0..81
    /\ DOMAIN model.params.classifier.weight = 0..81
    /\ pc \in {"forward", "steps", "visualize"} =>
         LET v == state_dict.vocabulary
             line == Data[step + 1]
         IN  /\ Len(sequences.idx) = Len(line)
             /\ \A t \in 1..Len(line) :
                  /\ sequences.idx[t] \in 0..(Len(v) - 1)
                  /\ v[sequences.idx[t] + 1] = line[t]
                  /\ Len(v) <= 82 => sequences.idx[t] \in 0..81

\* C7 witness: a sequence of several tokens under a vocabulary of 82 entries
C7_Witness ==
  /\ pc = "forward"
  /\ Len(state_dict.vocabulary) = 82
  /\ Len(sequences.idx) >= 2
  /\ \E t \in 1..Len(sequences.idx) : sequences.idx[t] > 0

\* C8: for a line of T >= 1 known characters, each heatmap has T columns in
\* time order; column t holds what the cell produced at step t, step 1
\* starting from the zero state and each later step from the state the step
\* before returned; the label of column t is character t of the line.
C8_ColumnsFollowSteps ==
  Built =>
    /\ \A p \in DOMAIN files :
         \E j \in 1..Len(order) : \E g \in 1..3 : p = PathOf(order[j].index, g)
    /\ \A j \in 1..Len(order) :
         LET i == order[j].index
             line == Data[i + 1]
             T == Len(line)
             calls == order[j].calls
             W == model.params.rnn_model
         IN  /\ T >= 1 /\ Len(calls) = T
             /\ calls[1].prev_state = None
             /\ CoupledForward(calls[1].x, <<Zeros(HiddenDim), Zeros(HiddenDim)>>, W)
                  .gate_signals = calls[1].gate_signals
             /\ \A t \in 1..(T - 1) :
                  calls[t + 1].prev_state = <<calls[t].next_h, calls[t].next_c>>
             /\ \A t \in 1..T :
                  calls[t].x = model.params.embedding[dataset.char2index[line[t]]]
             /\ \A g \in 1..3 :
                  PathOf(i, g) \in DOMAIN files =>
                    LET img == files[PathOf(i, g)]
                    IN  /\ img.time_stamps = T
                        /\ Len(img.values) = HiddenDim
                        /\ \A h \in 1..HiddenDim :
                             /\ Len(img.values[h]) = T
                             /\ \A t \in 1..T :
                                  img.values[h][t] = calls[t].gate_signals[g].val[h]
                        /\ img.xticklabels = line

\* C8 witness: all three heatmaps of a line of several characters, under a
\* vocabulary with a repeated character that the line uses, the second step
\* starting from a state that is not zero
C8_Witness ==
  /\ pc = "loop"
  /\ state_dict.vocabulary = <<97, 114, 97>>
  /\ \E j \in 1..Len(order) :
       /\ Len(order[j].calls) >= 2
       /\ {97, 114} \subseteq Range(Data[order[j].index + 1])
       /\ order[j].calls[2].prev_state[2] # Zeros(HiddenDim)
       /\ PathOf(order[j].index, 3) \in DOMAIN files

\* C9 as stated: on an empty line the step loop runs zero times and the
\* error is raised where the classifier reads state[0] of the state None;
\* the images of the earlier sequences exist and no others.
C9_EmptyLineFailsAtClassifier ==
  (pc = "error" /\ step < Len(Data) /\ Data[step + 1] = << >>) =>
    /\ err = [type |-> "TypeError", line |-> 47]
    /\ fwd.t = 0 /\ fwd.state = None
    /\ DOMAIN files = {PathOf(i, g) : i \in 0..(step - 1), g \in 1..3}

\* C9, amended: forward returns nothing for an empty line: its batch is an
\* empty float64 array, which the embedding lookup rejects with an error
\* before the step loop and the classifier are reached; the run aborts
\* there, with the images of all earlier sequences written and none for the
\* empty line or any later one.
C9_EmptyLineAborts ==
  Built =>
    /\ pc \in {"steps", "visualize"} => Data[step + 1] # << >>
    /\ \A j \in 1..Len(order) : Data[order[j].index + 1] # << >>
    /\ pc = "done" => \A i \in 1..Len(Data) : Data[i] # << >>
    /\ (pc = "error" /\ step < Len(Data) /\ Data[step + 1] = << >>) =>
         /\ err = [type |-> "RuntimeError", line |-> 37]
         /\ DOMAIN files = {PathOf(i, g) : i \in 0..(step - 1), g \in 1..3}
    /\ \A i \in 0..(Len(Data) - 1) :
         (\E e \in 0..i : Data[e + 1] = << >>) =>
           \A g \in 1..3 : PathOf(i, g) \notin DOMAIN files

\* C9 witness: the run has aborted at an empty line that is neither the
\* first nor the last
C9_Witness ==
  /\ pc = "error"
  /\ step >= 1 /\ step + 1 < Len(Data)
  /\ Data[step + 1] = << >>
  /\ savefigCalls = 3 * step

\* C10: every value of a heatmap lies in the colour range it is drawn with,
\* [0, 1] for update_signals and reset_signals and [-1, 1] for
\* cell_state_candidates, and every component of the cell state stays in
\* [-1, 1] at every step.
C10_ValuesInRange ==
  Built =>
    /\ \A p \in DOMAIN files :
         LET img == files[p]
         IN  /\ img.vmax = 1
             /\ img.vmin = IF p[Len(p) - 1] = "cell_state_candidates" THEN -1 ELSE 0
             /\ \A h \in 1..Len(img.values) : \A t \in 1..Len(img.values[h]) :
                  /\ img.vmin * Scale <= img.values[h][t]
                  /\ img.values[h][t] <= img.vmax * Scale
    /\ \A t \in 1..Len(trace) : \A h \in 1..HiddenDim :
         /\ -Scale <= trace[t].next_c[h]
         /\ trace[t].next_c[h] <= Scale

\* C10 witness: after three steps the cell state is not zero and a heatmap
\* of the candidates holds a negative value
C10_Witness ==
  /\ pc = "loop"
  /\ Len(trace) >= 3
  /\ trace[3].next_c # Zeros(HiddenDim)
  /\ \E p \in DOMAIN files :
       /\ p[Len(p) - 1] = "cell_state_candidates"
       /\ \E h \in 1..HiddenDim : \E t \in 1..Len(files[p].values[h]) :
            files[p].values[h][t] < 0

====
